---- MODULE Spec2Model ----
(***************************************************************************)
(* Library API (books / authors): the data-access layer (app/crud), the    *)
(* validation schemas (app/schemas), the table constraints (app/models)    *)
(* and the routes (app/__init__.py) that bind them to HTTP status codes.   *)
(*                                                                         *)
(* Column values are optional values: None is the SQL NULL / Python None,  *)
(* Some(v) a present value.  A string is a tuple of one-character strings, *)
(* so that ILIKE can be computed character by character.  A request body   *)
(* is a function from the keys the client sent to their values.            *)
(***************************************************************************)
EXTENDS Integers, Sequences, FiniteSets, TLC

VARIABLES authors, books, resp, sess

vars == <<authors, books, resp, sess>>

None == <<>>
Some(v) == <<v>>

---------------------------------------------------------------------------
(* Bounds of the model: authors and book keys handed out, the latest       *)
(* reading of the store's clock, sessions in flight, length of a search       *)
(* fragment.                                                               *)

MaxAuthors == 1
MaxBookId == 2
MaxClock == 1
NumSessions == 2
MaxFragLen == 2

---------------------------------------------------------------------------
(* Strings used as inputs.                                                 *)

War == <<"W", "a", "r">>
Peace == <<"p", "e", "a", "c", "e">>
Isbn1 == <<"9", "7", "8">>
Tolstoy == <<"T">>
CivilWar == <<"c", "i", "v", "i", "l", " ", "w", "a", "r">>
Discount == <<"1", "0", "0", "%">>
SnakeCase == <<"a", "_", "b">>

---------------------------------------------------------------------------
(* app/models: the tables and their constraints.                           *)

BookFields == {"title", "author_id", "description", "year", "isbn"}
AuthorFields == {"name", "bio", "birth_date"}

Ids(rows) == {r.id : r \in rows}

MaxIdOf(rows) ==
  IF rows = {} THEN 0 ELSE CHOOSE m \in Ids(rows) : \A i \in Ids(rows) : i <= m

\* Integer primary key of authors: the next key after the largest one stored
\* (authors are never deleted and an author insert never fails).
NextAuthorId(as) == MaxIdOf(as) + 1

\* Integer primary key of books: the engine hands out a key larger than every
\* key stored (the next rowid, or a sequence value after gaps left by failed
\* inserts).
FreshBookIds(bs) == (MaxIdOf(bs) + 1)..MaxBookId

\* server_default=func.now() on created_at: the store's clock at the insert,
\* which never runs behind a timestamp it has already handed out.
Timestamps(as, bs) ==
  LET given == {r.created_at : r \in as \cup bs}
      latest == IF given = {} THEN 1
                ELSE CHOOSE m \in given : \A t \in given : t <= m
  IN  latest..MaxClock

\* nullable=False on title and author_id.
NotNullOk(row) == row.title # None /\ row.author_id # None

\* Faulty variant: isbn declared without unique=True.
UniqueIsbnDropped(row, others) == TRUE

\* unique=True on isbn: NULLs never collide.
UniqueIsbnOk(row, others) ==
  row.isbn = None \/ \A o \in others : o.isbn # row.isbn

\* Whether the engine behind the session enforces declared foreign keys.
EngineEnforcesForeignKeys == TRUE

\* Faulty variant: author_id declared without its ForeignKey.
ForeignKeyDropped(row, as) == TRUE

\* ForeignKey("authors.id") on author_id.
ForeignKeyOk(row, as) ==
  EngineEnforcesForeignKeys =>
    (row.author_id = None \/ \E a \in as : Some(a.id) = row.author_id)

\* What the store answers to a write of `row` beside the rows `others`.
StoreError(row, others, as) ==
  IF ~NotNullOk(row) THEN "NotNullViolation"
  ELSE IF ~UniqueIsbnOk(row, others) THEN "UniquenessViolation"
  ELSE IF ~ForeignKeyOk(row, as) THEN "ReferentialIntegrityViolation"
  ELSE "ok"

---------------------------------------------------------------------------
(* app/schemas: validation of request bodies.                              *)

\* AuthorCreate: name is required and must be a string.
AuthorCreateValid(body) == "name" \in DOMAIN body /\ body.name # None

\* author.dict(): the declared fields only, unset optional fields are None.
AuthorCreateDict(body) ==
  [f \in AuthorFields |-> IF f \in DOMAIN body THEN body[f] ELSE None]

\* BookCreate: title and author_id are required.
BookCreateValid(body) ==
  /\ "title" \in DOMAIN body /\ body.title # None
  /\ "author_id" \in DOMAIN body /\ body.author_id # None

\* Faulty variant: a schema that lets id and created_at of the body through.
BookCreateDictWithExtras(body) ==
  [f \in BookFields \cup (DOMAIN body \cap {"id", "created_at"}) |->
     IF f \in DOMAIN body THEN body[f] ELSE None]

\* book.dict(): the declared fields only (undeclared keys of the body are
\* ignored), unset optional fields are None.
BookCreateDict(body) ==
  [f \in BookFields |-> IF f \in DOMAIN body THEN body[f] ELSE None]

\* Faulty variant: book.dict() without exclude_unset, unset fields are None.
BookUpdateDictAllFields(body) ==
  [f \in BookFields |-> IF f \in DOMAIN body THEN body[f] ELSE None]

\* book.dict(exclude_unset=True): only the declared fields the client sent.
BookUpdateDict(body) ==
  [f \in DOMAIN body \cap BookFields |-> body[f]]

---------------------------------------------------------------------------
(* Responses and sessions.  A response names the route, the id of its path *)
(* (0 when it has none), the status code, the error behind a failure and   *)
(* the ids of the records in its body.                                     *)

Response(op, id, status, error, body) ==
  [op |-> op, id |-> id, status |-> status, error |-> error, body |-> body]

NoResponse == Response("none", 0, 0, "ok", {})

Sessions == 1..NumSessions

IdleSession == [pc |-> "idle", id |-> 0, writes |-> <<>>]

---------------------------------------------------------------------------
(* Case-insensitive pattern matching of the store.                         *)

lower(c) ==
  CASE c = "W" -> "w"
    [] c = "A" -> "a"
    [] c = "P" -> "p"
    [] OTHER -> c

RECURSIVE LikeMatch(_, _)
\* s LIKE p, compared without regard to case: % matches any run of
\* characters, _ matches any one character.
LikeMatch(s, p) ==
  IF p = <<>> THEN s = <<>>
  ELSE IF Head(p) = "%"
    THEN LikeMatch(s, Tail(p)) \/ (s # <<>> /\ LikeMatch(Tail(s), p))
  ELSE IF s = <<>> THEN FALSE
  ELSE /\ (Head(p) = "_" \/ lower(Head(p)) = lower(Head(s)))
       /\ LikeMatch(Tail(s), Tail(p))

\* column.ilike(pattern); NULL matches nothing.
ilike(value, pattern) ==
  value # None /\ LikeMatch(value[1], pattern)

---------------------------------------------------------------------------
(* app/crud: the data-access operations, as functions of the store.  A     *)
(* write returns the error the store raised ("ok" when none), the books    *)
(* after it and the record handed back ({} is Python's None).              *)

\* get_book: the record with this id, or None.
get_book(bs, book_id) == {b \in bs : b.id = book_id}

create_author(as, body, t) ==
  AuthorCreateDict(body) @@ [id |-> NextAuthorId(as), created_at |-> t]

\* Faulty variant: the books are matched on Book.id instead of author_id.
get_author_books_by_book_id(bs, as, author_id) ==
  IF \E a \in as : a.id = author_id
    THEN {b \in bs : b.id = author_id}
    ELSE {}

\* get_author_books: author.books when the author exists, else [].
get_author_books(bs, as, author_id) ==
  IF \E a \in as : a.id = author_id
    THEN {b \in bs : b.author_id = Some(author_id)}
    ELSE {}

\* create_book: Book(**book.dict()), add, commit, refresh.  The keys the
\* dict does not give (id, created_at) are filled in by the store.
create_book(bs, as, body, newId, t) ==
  LET row == BookCreateDict(body) @@ [id |-> newId, created_at |-> t]
      err == StoreError(row, bs, as)
  IN  IF err = "ok"
        THEN [error |-> "ok", books |-> bs \cup {row}, row |-> {row}]
        ELSE [error |-> err, books |-> bs, row |-> {}]

\* The setattr loop of update_book on the record that was read: the session
\* keeps, as pending writes, the attributes whose new value differs from the
\* value loaded.
PendingWrites(snap, data) ==
  [f \in {g \in DOMAIN data : data[g] # snap[g]} |-> data[f]]

\* Faulty variant: the record is merged, so a row that is gone is inserted.
FlushUpdateUpsert(bs, as, book_id, writes) ==
  LET cur == get_book(bs, book_id)
      old == IF cur = {}
               THEN [f \in BookFields |-> None] @@ [id |-> book_id, created_at |-> 1]
               ELSE CHOOSE b \in cur : TRUE
      new == [f \in DOMAIN old |-> IF f \in DOMAIN writes THEN writes[f] ELSE old[f]]
  IN  [error |-> "ok", books |-> (bs \ cur) \cup {new}, row |-> {new}]

\* db.commit(); db.refresh(db_book) of update_book: the pending writes go to
\* the row with the record's primary key.  A row that is gone makes the flush
\* (StaleDataError) or, with nothing to write, the refresh
\* (InvalidRequestError) raise; a write the store rejects changes nothing.
FlushUpdate(bs, as, book_id, writes) ==
  LET cur == get_book(bs, book_id)
  IN  IF cur = {}
        THEN [error |-> IF DOMAIN writes = {} THEN "InvalidRequestError"
                                              ELSE "StaleDataError",
              books |-> bs, row |-> {}]
        ELSE LET old == CHOOSE b \in cur : TRUE
                 new == [f \in DOMAIN old |->
                           IF f \in DOMAIN writes THEN writes[f] ELSE old[f]]
                 err == IF DOMAIN writes = {} THEN "ok"
                        ELSE StoreError(new, bs \ cur, as)
             IN  IF err = "ok"
                   THEN [error |-> "ok", books |-> (bs \ cur) \cup {new},
                         row |-> {new}]
                   ELSE [error |-> err, books |-> bs, row |-> {}]

\* update_book: query first; None when no record matches.
update_book(bs, as, book_id, body) ==
  LET found == get_book(bs, book_id)
  IN  IF found = {}
        THEN [error |-> "ok", books |-> bs, row |-> {}]
        ELSE FlushUpdate(bs, as, book_id,
                         PendingWrites(CHOOSE b \in found : TRUE, BookUpdateDict(body)))

\* Faulty variant: the delete is never committed.
CommitDeleteNothing(bs, book_id) == bs

\* db.delete(db_book); db.commit(): DELETE of the row with the record's key.
CommitDelete(bs, book_id) == {b \in bs : b.id # book_id}

\* Faulty variant: the record is deleted but True is never returned.
delete_book_reports_false(bs, book_id) ==
  [ok |-> FALSE, books |-> CommitDelete(bs, book_id)]

\* delete_book: query first; False when no record matches.
delete_book(bs, book_id) ==
  IF get_book(bs, book_id) = {}
    THEN [ok |-> FALSE, books |-> bs]
    ELSE [ok |-> TRUE, books |-> CommitDelete(bs, book_id)]

\* search_books_by_title: Book.title.ilike(f"%{title}%").
search_books_by_title(bs, title) ==
  {b \in bs : ilike(b.title, <<"%">> \o title \o <<"%">>)}

---------------------------------------------------------------------------
(* Request inputs.                                                         *)

AuthorBodies ==
  { [name |-> Some(Tolstoy)],
    [bio |-> Some(<<"b">>)] }

BookCreateBodies ==
  { [title |-> Some(War), author_id |-> Some(1)],
    [title |-> Some(Peace), author_id |-> Some(1), isbn |-> Some(Isbn1),
     id |-> 7, created_at |-> 0],
    [title |-> Some(War), author_id |-> Some(2), isbn |-> Some(Isbn1)],
    [author_id |-> Some(1)] }

BookUpdateBodies ==
  { <<>>,
    [year |-> Some(1869), id |-> 7, created_at |-> 0],
    [isbn |-> Some(Isbn1)],
    [title |-> None],
    [author_id |-> Some(2)] }

RaceCreateBodies ==
  { [title |-> Some(War), author_id |-> Some(1)],
    [title |-> Some(Peace), author_id |-> Some(1), isbn |-> Some(Isbn1)] }

RaceUpdateBodies ==
  { <<>>,
    [isbn |-> Some(Isbn1)] }

BookIds == 1..MaxBookId
AuthorIds == 1..(MaxAuthors + 1)

---------------------------------------------------------------------------
(* app/__init__.py: the routes.                                            *)

\* POST /authors
add_author(body) ==
  /\ Cardinality(authors) < MaxAuthors
  /\ IF ~AuthorCreateValid(body)
       THEN /\ resp' = Response("add_author", 0, 422, "ValidationError", {})
            /\ UNCHANGED authors
       ELSE \E t \in Timestamps(authors, books) :
              LET row == create_author(authors, body, t)
              IN  /\ authors' = authors \cup {row}
                  /\ resp' = Response("add_author", 0, 201, "ok", {row.id})
  /\ UNCHANGED <<books, sess>>

\* GET /authors/{author_id}/books
read_author_books(author_id) ==
  LET found == get_author_books(books, authors, author_id)
  IN  /\ resp' = IF found = {}
                   THEN Response("read_author_books", author_id, 404, "NotFound", {})
                   ELSE Response("read_author_books", author_id, 200, "ok", Ids(found))
      /\ UNCHANGED <<authors, books, sess>>

\* GET /books/{book_id}
read_book(book_id) ==
  LET db_book == get_book(books, book_id)
  IN  /\ resp' = IF db_book = {}
                   THEN Response("read_book", book_id, 404, "NotFound", {})
                   ELSE Response("read_book", book_id, 200, "ok", Ids(db_book))
      /\ UNCHANGED <<authors, books, sess>>

\* POST /books: the route catches nothing, so an exception of create_book
\* leaves as the server's answer to an unhandled exception.
add_book(body) ==
  /\ IF ~BookCreateValid(body)
       THEN /\ resp' = Response("add_book", 0, 422, "ValidationError", {})
            /\ UNCHANGED books
       ELSE \E newId \in FreshBookIds(books), t \in Timestamps(authors, books) :
              LET r == create_book(books, authors, body, newId, t)
              IN  /\ books' = r.books
                  /\ resp' = IF r.error = "ok"
                               THEN Response("add_book", 0, 201, "ok", Ids(r.row))
                               ELSE Response("add_book", 0, 500, r.error, {})
  /\ UNCHANGED <<authors, sess>>

\* The answer of PUT /books/{book_id} to what update_book did.
UpdateResponse(book_id, r) ==
  IF r.error # "ok" THEN Response("update_book_info", book_id, 500, r.error, {})
  ELSE IF r.row = {} THEN Response("update_book_info", book_id, 404, "NotFound", {})
  ELSE Response("update_book_info", book_id, 200, "ok", Ids(r.row))

\* PUT /books/{book_id}
update_book_info(book_id, body) ==
  LET r == update_book(books, authors, book_id, body)
  IN  /\ books' = r.books
      /\ resp' = UpdateResponse(book_id, r)
      /\ UNCHANGED <<authors, sess>>

\* The answer of DELETE /books/{book_id} to what delete_book returned.
DeleteResponse(book_id, success) ==
  IF success THEN Response("remove_book", book_id, 200, "ok", {})
  ELSE Response("remove_book", book_id, 404, "NotFound", {})

\* DELETE /books/{book_id}
remove_book(book_id) ==
  LET r == delete_book(books, book_id)
  IN  /\ books' = r.books
      /\ resp' = DeleteResponse(book_id, r.ok)
      /\ UNCHANGED <<authors, sess>>

\* GET /books/search/{title}
search_books(title) ==
  LET found == search_books_by_title(books, title)
  IN  /\ resp' = IF found = {}
                   THEN Response("search_books", 0, 404, "NotFound", {})
                   ELSE Response("search_books", 0, 200, "ok", Ids(found))
      /\ UNCHANGED <<authors, books, sess>>

---------------------------------------------------------------------------
(* One request handled at a time.                                          *)

Init ==
  /\ authors = {}
  /\ books = {}
  /\ resp = NoResponse
  /\ sess = [s \in Sessions |-> IdleSession]

Next ==
  \/ \E body \in AuthorBodies : add_author(body)
  \/ \E a \in AuthorIds : read_author_books(a)
  \/ \E b \in BookIds : read_book(b)
  \/ \E body \in BookCreateBodies : add_book(body)
  \/ \E b \in BookIds, body \in BookUpdateBodies : update_book_info(b, body)
  \/ \E b \in BookIds : remove_book(b)

Spec == Init /\ [][Next]_vars

---------------------------------------------------------------------------
(* Requests in flight together: update_book and delete_book query first    *)
(* and commit later, each in its own session; other requests may commit in *)
(* between.                                                                *)

\* update_book up to and including the setattr loop.
UpdateRead(s, book_id, body) ==
  /\ sess[s].pc = "idle"
  /\ LET found == get_book(books, book_id)
     IN  IF found = {}
           THEN /\ resp' = Response("update_book_info", book_id, 404, "NotFound", {})
                /\ UNCHANGED sess
           ELSE /\ sess' = [sess EXCEPT ![s] =
                     [pc |-> "update", id |-> book_id,
                      writes |-> PendingWrites(CHOOSE b \in found : TRUE,
                                               BookUpdateDict(body))]]
                /\ UNCHANGED resp
  /\ UNCHANGED <<authors, books>>

\* update_book from db.commit() on, and the route's answer.
UpdateCommit(s) ==
  /\ sess[s].pc = "update"
  /\ LET r == FlushUpdate(books, authors, sess[s].id, sess[s].writes)
     IN  /\ books' = r.books
         /\ resp' = UpdateResponse(sess[s].id, r)
  /\ sess' = [sess EXCEPT ![s] = IdleSession]
  /\ UNCHANGED authors

\* delete_book up to the query.
DeleteRead(s, book_id) ==
  /\ sess[s].pc = "idle"
  /\ IF get_book(books, book_id) = {}
       THEN /\ resp' = DeleteResponse(book_id, FALSE)
            /\ UNCHANGED sess
       ELSE /\ sess' = [sess EXCEPT ![s] =
                 [pc |-> "delete", id |-> book_id, writes |-> <<>>]]
            /\ UNCHANGED resp
  /\ UNCHANGED <<authors, books>>

\* delete_book from db.delete() on, and the route's answer.
DeleteCommit(s) ==
  /\ sess[s].pc = "delete"
  /\ books' = CommitDelete(books, sess[s].id)
  /\ resp' = DeleteResponse(sess[s].id, TRUE)
  /\ sess' = [sess EXCEPT ![s] = IdleSession]
  /\ UNCHANGED authors

\* The store after one POST /authors, no request in flight.
InitRace ==
  /\ authors = {create_author({}, [name |-> Some(Tolstoy)], 1)}
  /\ books = {}
  /\ resp = NoResponse
  /\ sess = [s \in Sessions |-> IdleSession]

NextRace ==
  \/ \E body \in RaceCreateBodies : add_book(body)
  \/ \E s \in Sessions, b \in BookIds, body \in RaceUpdateBodies : UpdateRead(s, b, body)
  \/ \E s \in Sessions : UpdateCommit(s)
  \/ \E s \in Sessions, b \in BookIds : DeleteRead(s, b)
  \/ \E s \in Sessions : DeleteCommit(s)

SpecRace == InitRace /\ [][NextRace]_vars

---------------------------------------------------------------------------
(* Search: the titles stored and the fragment asked for range over strings *)
(* with letters of both cases and the characters % and _.                  *)

SearchTitles == {War, Peace, CivilWar, Discount, SnakeCase}

FragmentAlphabet == {"w", "A", "r", "_", "%"}

Fragments ==
  UNION {[1..n -> FragmentAlphabet] : n \in 1..MaxFragLen}

SearchRow(i, t) ==
  [title |-> Some(t), author_id |-> Some(1), id |-> i, created_at |-> 1] @@
  [f \in BookFields |-> None]

\* A store after one POST /authors and some POST /books.
InitSearch ==
  /\ authors = {create_author({}, [name |-> Some(Tolstoy)], 1)}
  /\ \E present \in SUBSET BookIds :
       \E titleOf \in [present -> SearchTitles] :
         books = {SearchRow(i, titleOf[i]) : i \in present}
  /\ resp = NoResponse
  /\ sess = [s \in Sessions |-> IdleSession]

NextSearch == \E title \in Fragments : search_books(title)

SpecSearch == InitSearch /\ [][NextSearch]_vars

---------------------------------------------------------------------------
(* Properties.                                                             *)

RowOf(bs, book_id) == CHOOSE b \in bs : b.id = book_id

Exists(bs, book_id) == \E b \in bs : b.id = book_id

\* The book book_id after the step has, in every updatable field, the value
\* of the input when the input has the field and its old value when not;
\* nothing else of the store differs.
OnlyGivenFieldsSet(book_id, body) ==
  /\ Exists(books', book_id)
  /\ LET old == RowOf(books, book_id)
         new == RowOf(books', book_id)
     IN  /\ \A f \in BookFields :
               new[f] = IF f \in DOMAIN body THEN body[f] ELSE old[f]
         /\ new.id = old.id /\ new.created_at = old.created_at
         /\ books' \ {new} = books \ {old}
  /\ authors' = authors

StoreUnchanged == books' = books /\ authors' = authors

\* The step ends with the answer of route op to a request for this id.
IsAnswerOf(op, id) == resp'.op = op /\ resp'.id = id

\* C1, as stated: update_book on an existing book sets exactly the fields
\* present in the input to the supplied values and changes nothing else.
C1_UpdateSetsEveryGivenField ==
  [][\A b \in BookIds :
       (IsAnswerOf("update_book_info", b) /\ Exists(books, b)) =>
         \A body \in BookUpdateBodies :
           update_book_info(b, body) => OnlyGivenFieldsSet(b, body)]_vars

\* The input gives a value the constraints of the store refuse: a null title
\* or author_id, an author_id no author has, an isbn another book holds.
Refused(book_id, body) ==
  \/ "title" \in DOMAIN body /\ body.title = None
  \/ "author_id" \in DOMAIN body
       /\ (body.author_id = None \/ ~\E a \in authors : Some(a.id) = body.author_id)
  \/ "isbn" \in DOMAIN body /\ body.isbn # None
       /\ \E o \in books : o.id # book_id /\ o.isbn = body.isbn

\* C1, amended: an update_book on an existing book whose input the store
\* accepts sets exactly the fields present in the input and changes nothing
\* else (an absent field is never nulled, an empty input changes nothing);
\* one whose input the store refuses raises and changes nothing at all.
C1_PartialUpdate ==
  [][\A b \in BookIds :
       (IsAnswerOf("update_book_info", b) /\ Exists(books, b)) =>
         \A body \in BookUpdateBodies :
           update_book_info(b, body) =>
             IF Refused(b, body)
               THEN resp'.status = 500 /\ StoreUnchanged
               ELSE resp'.status = 200 /\ OnlyGivenFieldsSet(b, body)]_vars

\* An accepted update has set year on a book that kept its title.
C1_Witness ==
  /\ resp.op = "update_book_info" /\ resp.status = 200
  /\ \E b \in books :
       b.id = resp.id /\ b.year = Some(1869) /\ b.title = Some(War)

IsbnUniqueIn(bs) ==
  \A b1, b2 \in bs : (b1.isbn # None /\ b1.isbn = b2.isbn) => b1 = b2

BodyIsbn(body) == IF "isbn" \in DOMAIN body THEN body.isbn ELSE None

\* C2: with requests interleaved in any way, no two stored books share a
\* non-null isbn; a create_book whose isbn is that of a stored book fails with
\* UniquenessViolation and adds nothing; a create_book without isbn for an
\* existing author succeeds whatever books are stored.
C2_IsbnUnique ==
  [][/\ IsbnUniqueIn(books')
     /\ IsAnswerOf("add_book", 0) => \A body \in RaceCreateBodies :
          (BookCreateValid(body) /\ add_book(body)) =>
            /\ (\E b \in books : BodyIsbn(body) # None /\ b.isbn = BodyIsbn(body))
                 => /\ books' = books
                    /\ resp'.status # 201
                    /\ resp'.error = "UniquenessViolation"
            /\ (BodyIsbn(body) = None /\ \E a \in authors : Some(a.id) = body.author_id)
                 => /\ resp'.status = 201
                    /\ Cardinality(books') = Cardinality(books) + 1
                    /\ books \subseteq books']_vars

\* A create_book was refused for its isbn while the book holding it is stored.
C2_Witness ==
  /\ resp.op = "add_book" /\ resp.error = "UniquenessViolation"
  /\ \E b \in books : b.isbn = Some(Isbn1)

ReferencesHold(bs, as) ==
  \A b \in bs : \E a \in as : Some(a.id) = b.author_id

C4_StoreFailureIsClientError ==
  (resp.op = "add_book"
   /\ resp.error \in {"UniquenessViolation", "ReferentialIntegrityViolation"})
    => resp.status \in 400..499

\* C5: delete_book on a stored book answers success and removes that record
\* and nothing else; get_book answers None, and GET /books/{id} 404, exactly
\* for the ids no stored book has, so also for the id just deleted.
C5_DeleteThenAbsent ==
  [][\A b \in BookIds :
       /\ (IsAnswerOf("remove_book", b) /\ Exists(books, b) /\ remove_book(b)) =>
            /\ resp'.status = 200
            /\ books' = books \ {RowOf(books, b)}
            /\ get_book(books', b) = {}
            /\ authors' = authors
       /\ (IsAnswerOf("read_book", b) /\ read_book(b)) =>
            /\ (get_book(books, b) = {}) <=> ~Exists(books, b)
            /\ (resp'.status = 404) <=> ~Exists(books, b)]_vars

\* A book was deleted and another one is still stored.
C5_Witness ==
  /\ resp.op = "remove_book" /\ resp.status = 200
  /\ ~Exists(books, resp.id)
  /\ books # {}

\* C6: for an id no stored book has, update_book returns None, delete_book
\* returns False, nothing is written and both routes answer 404; they answer
\* 404 for no other id.
C6_AbsentIsNotFound ==
  [][\A b \in BookIds :
       /\ IsAnswerOf("update_book_info", b) => \A body \in BookUpdateBodies :
            update_book_info(b, body) =>
              /\ (resp'.status = 404) <=> ~Exists(books, b)
              /\ ~Exists(books, b) =>
                   /\ update_book(books, authors, b, body).row = {}
                   /\ update_book(books, authors, b, body).error = "ok"
                   /\ StoreUnchanged
       /\ (IsAnswerOf("remove_book", b) /\ remove_book(b)) =>
            /\ (resp'.status = 404) <=> ~Exists(books, b)
            /\ ~Exists(books, b) =>
                 (~delete_book(books, b).ok /\ StoreUnchanged)]_vars

\* An update or delete of an id no stored book has was answered 404 while
\* another book is stored.
C6_Witness ==
  /\ resp.op \in {"update_book_info", "remove_book"} /\ resp.status = 404
  /\ ~Exists(books, resp.id)
  /\ books # {}

UniqueIds(rows) == \A r1, r2 \in rows : r1.id = r2.id => r1 = r2

\* C7: the ids of stored records are pairwise different; a created record's
\* id and created_at are the values the store generates, whatever id or
\* created_at the request body carries; a record that stays stored keeps its
\* id and created_at.
C7_AssignedByStore ==
  [][/\ UniqueIds(books') /\ UniqueIds(authors')
     /\ \A n \in books' :
          IF Exists(books, n.id)
            THEN n.created_at = RowOf(books, n.id).created_at
            ELSE n.id \in FreshBookIds(books)
                 /\ n.created_at \in Timestamps(authors, books)
     /\ \A n \in authors' :
          IF Exists(authors, n.id)
            THEN n \in authors
            ELSE n.id = NextAuthorId(authors)
                 /\ n.created_at \in Timestamps(authors, books)]_vars

\* The book created from the body that carries an id and a created_at of its
\* own is stored, later updated by a body carrying them too.
C7_Witness ==
  \E b \in books :
    /\ b.title = Some(Peace) /\ b.year = Some(1869)
    /\ b.id # 7 /\ b.created_at # 0

\* The books whose title contains the fragment, letter case ignored.
ContainsNoCase(title, fragment) ==
  \E i \in 0..(Len(title) - Len(fragment)) :
    \A j \in 1..Len(fragment) : lower(title[i + j]) = lower(fragment[j])

\* C8: search_books_by_title returns exactly the stored books whose title
\* contains the fragment as a case-insensitive literal substring, for every
\* fragment, % and _ included, and the empty list when there is none.
C8_LiteralSubstring ==
  [][IsAnswerOf("search_books", 0) => \A fragment \in Fragments :
       search_books(fragment) =>
         /\ search_books_by_title(books, fragment)
              = {b \in books : ContainsNoCase(b.title[1], fragment)}
         /\ resp'.body = Ids({b \in books : ContainsNoCase(b.title[1], fragment)})]_vars

\* C9: get_author_books returns exactly the stored books of the author when
\* the author is stored, and the empty list when the author is not stored or
\* has no books; GET /authors/{id}/books answers 404 exactly when that list
\* is empty.
C9_AuthorBooks ==
  [][\A a \in AuthorIds :
       (IsAnswerOf("read_author_books", a) /\ read_author_books(a)) =>
         LET owned == IF Exists(authors, a)
                        THEN {b \in books : b.author_id = Some(a)}
                        ELSE {}
         IN  /\ get_author_books(books, authors, a) = owned
             /\ (resp'.status = 404) <=> (owned = {})
             /\ (resp'.status = 200) <=> (owned # {})
             /\ resp'.body = Ids(owned)]_vars

\* A stored author without books was answered 404.
C9_Witness ==
  /\ resp.op = "read_author_books" /\ resp.status = 404
  /\ Exists(authors, resp.id)
  /\ \A b \in books : b.author_id # Some(resp.id)

\* C10: the commit of an update_book never adds a record, and when the row
\* it read has been deleted in the meantime it writes nothing and the request
\* fails; the commit of a delete_book leaves no record with that id.
C10_NoResurrection ==
  [][\A s \in Sessions :
       /\ (sess[s].pc = "update" /\ UpdateCommit(s)) =>
            /\ Ids(books') \subseteq Ids(books)
            /\ ~Exists(books, sess[s].id) =>
                 (books' = books /\ resp'.status = 500)
       /\ (sess[s].pc = "delete" /\ DeleteCommit(s)) => ~Exists(books', sess[s].id)]_vars

\* An update that had read its book failed because the book was deleted
\* before its commit.
C10_Witness ==
  /\ resp.op = "update_book_info" /\ resp.status = 500
  /\ resp.error \in {"StaleDataError", "InvalidRequestError"}
  /\ ~Exists(books, resp.id)

====
